---- MODULE Spec2Model ----
(***************************************************************************)
(* A model of wlc/WLclassifier.py: class WeakLogisticRegression.           *)
(*                                                                         *)
(* The module is Python 2 source (print statements, no                     *)
(* `from __future__ import division`), so `/` between integer arrays is    *)
(* classic (floor) division.                                               *)
(*                                                                         *)
(* Numbers.  A float is modelled as a fixed-point number: the integer v    *)
(* stands for the real v / Scale.  Products and quotients round to the     *)
(* nearest representable value, half away from zero, so rounding is        *)
(* symmetric in the sign as IEEE round-to-nearest is.  np.exp and np.log   *)
(* are tabulated on that grid (ExpFix, LogFix); exp underflows to 0.       *)
(* A matrix is a sequence of rows, a row a sequence of numbers.            *)
(***************************************************************************)
EXTENDS Integers, Sequences, FiniteSets, TLC

VARIABLES
    sound, params, method, optimizer, n_classes,  \* attributes set by __init__
    n_dim, W,                                     \* attributes set by fit
    rng,                                          \* state of the global np.random generator
    pc, frame,                                    \* the fit call in flight: position, locals
    frame2,                                       \* locals of a gd2 run beside a gd run
    ret,                                          \* outcome of the last call that ended
    ctor,                                         \* the arguments __init__ was called with
    last                                          \* inputs of the fit call that stored W

vars == <<sound, params, method, optimizer, n_classes, n_dim, W, rng,
          pc, frame, frame2, ret, ctor, last>>

config == <<sound, params, method, optimizer, n_classes, ctor>>

(***************************************************************************)
(* Bounds of the model.                                                    *)
(***************************************************************************)
MaxN == 2          \* samples in a matrix
MaxDim == 1        \* features of X
MaxClasses == 2    \* n_classes, columns of T
MaxIt == 2         \* params['n_it']
MaxIdx == 2        \* |index| handed to index2bin

(***************************************************************************)
(* Fixed-point arithmetic.                                                 *)
(***************************************************************************)
Scale == 4

\* a / b for b > 0, rounded to nearest, half away from zero
RoundDiv(a, b) == IF a >= 0 THEN (2 * a + b) \div (2 * b)
                            ELSE -((2 * (-a) + b) \div (2 * b))

FMul(a, b) == RoundDiv(a * b, Scale)

\* np.exp on the grid, for z <= 0: round(Scale * e^(z / Scale))
ExpFix(z) == IF z >= 0 THEN Scale
             ELSE IF z = -1 THEN 3
             ELSE IF z >= -3 THEN 2
             ELSE IF z >= -8 THEN 1
             ELSE 0

\* np.log on the grid, for s >= Scale: round(Scale * ln(s / Scale))
LogFix(s) == IF s <= 4 THEN 0
             ELSE IF s = 5 THEN 1
             ELSE IF s <= 7 THEN 2
             ELSE IF s <= 9 THEN 3
             ELSE IF s <= 12 THEN 4
             ELSE 5

RECURSIVE Sum(_)
Sum(s) == IF s = <<>> THEN 0 ELSE Head(s) + Sum(Tail(s))

RowMax(r) == CHOOSE m \in {r[j] : j \in DOMAIN r} : \A j \in DOMAIN r : r[j] <= m

\* an array holds its elements: the sequence of the values of f, and of its rows
RECURSIVE Tup(_, _)
Tup(f, n) == IF n = 0 THEN <<>> ELSE Append(Tup(f, n - 1), f[n])

Vec(f) == Tup(f, Cardinality(DOMAIN f))

Mat(f) == LET n == Cardinality(DOMAIN f) IN Tup([i \in 1..n |-> Vec(f[i])], n)

NRows(A) == Len(A)
NCols(A) == Len(A[1])

Matrices(rows, cols, vals) == [1..rows -> [1..cols -> vals]]

\* every N x C matrix over vals with 1 <= N <= maxn, 1 <= C <= maxc
AllMatrices(maxn, maxc, vals) ==
    UNION {Matrices(n, c, vals) : n \in 1..maxn, c \in 1..maxc}

Transpose(A) == Mat([j \in 1..NCols(A) |-> [i \in 1..NRows(A) |-> A[i][j]]])

\* np.dot(A, B) for NCols(A) = NRows(B)
Dot(A, B) == Mat([i \in 1..NRows(A) |-> [j \in 1..NCols(B) |->
                 Sum(Vec([k \in 1..NCols(A) |-> FMul(A[i][k], B[k][j])]))]])

\* numpy broadcasting of two 2-D operands
Broadcastable(A, B) ==
    /\ NRows(A) = NRows(B) \/ NRows(A) = 1 \/ NRows(B) = 1
    /\ NCols(A) = NCols(B) \/ NCols(A) = 1 \/ NCols(B) = 1

BRows(A, B) == IF NRows(A) >= NRows(B) THEN NRows(A) ELSE NRows(B)
BCols(A, B) == IF NCols(A) >= NCols(B) THEN NCols(A) ELSE NCols(B)

At(A, i, j) == A[IF NRows(A) = 1 THEN 1 ELSE i][IF NCols(A) = 1 THEN 1 ELSE j]

BMul(A, B) == Mat([i \in 1..BRows(A, B) |-> [j \in 1..BCols(A, B) |->
                  FMul(At(A, i, j), At(B, i, j))]])
BSub(A, B) == Mat([i \in 1..BRows(A, B) |-> [j \in 1..BCols(A, B) |->
                  At(A, i, j) - At(B, i, j)]])
BAdd(A, B) == Mat([i \in 1..BRows(A, B) |-> [j \in 1..BCols(A, B) |->
                  At(A, i, j) + At(B, i, j)]])

\* scalar * matrix
SMul(a, A) == Mat([i \in 1..NRows(A) |-> [j \in 1..NCols(A) |-> FMul(a, A[i][j])]])

\* int64 array used where a float array is expected
ToFix(A) == Mat([i \in 1..NRows(A) |-> [j \in 1..NCols(A) |-> A[i][j] * Scale]])

\* w.reshape((r, c)) for Len(w) = r * c, row-major
Reshape(w, r, c) == Mat([i \in 1..r |-> [j \in 1..c |-> w[(i - 1) * c + j]]])

\* A.reshape((r * c)) of an r x c matrix, row-major
Flatten(A) == Vec([k \in 1..(NRows(A) * NCols(A)) |->
                  A[((k - 1) \div NCols(A)) + 1][((k - 1) % NCols(A)) + 1]])

Ok(v) == [ok |-> TRUE, err |-> "", val |-> v]
Raise(e) == [ok |-> FALSE, err |-> e, val |-> <<>>]

(***************************************************************************)
(* The numeric transforms.                                                 *)
(***************************************************************************)
\* a / b on the grid
FDiv(a, b) == RoundDiv(a * Scale, b)

\* np.exp(z) elementwise, on one row
ExpRow(z) == Vec([j \in DOMAIN z |-> ExpFix(z[j])])

softmax(x) ==
    Mat([i \in 1..NRows(x) |->
        LET z == Vec([j \in 1..NCols(x) |-> x[i][j] - RowMax(x[i])])
            p == ExpRow(z)
        IN  [j \in 1..NCols(x) |-> FDiv(p[j], Sum(p))]])

logsoftmax(x) ==
    Mat([i \in 1..NRows(x) |->
        LET z == Vec([j \in 1..NCols(x) |-> x[i][j] - RowMax(x[i])])
        IN  [j \in 1..NCols(x) |-> z[j] - LogFix(Sum(ExpRow(z)))]])

\* vector[i] addresses a column of a row of width dim: numpy accepts -dim .. dim-1
InBounds(idx, dim) == -dim <= idx /\ idx < dim

\* the column (from 1) that numpy writes for index idx
Column(idx, dim) == (IF idx < 0 THEN idx + dim ELSE idx) + 1

index2bin(vector, dim) ==
    IF \E i \in DOMAIN vector : ~InBounds(vector[i], dim)
    THEN Raise("IndexError")
    ELSE Ok(Mat([i \in 1..Len(vector) |-> [j \in 1..dim |->
                IF j = Column(vector[i], dim) THEN Scale ELSE 0]]))

\* sp.equal(Z, np.max(Z, axis=1, keepdims=True)) as 0/1
IsMax(Z) == Mat([i \in 1..NRows(Z) |-> [j \in 1..NCols(Z) |->
                IF Z[i][j] = RowMax(Z[i]) THEN 1 ELSE 0]])

\* bool array / int64 array: integer (floor) division, an int64 array
hardmax(Z) ==
    LET D == IsMax(Z)
    IN  Mat([i \in 1..NRows(Z) |-> [j \in 1..NCols(Z) |-> D[i][j] \div Sum(D[i])]])

(***************************************************************************)
(* Loss and gradient.  The result is Ok(value) or Raise(exception); the    *)
(* field D holds the local D of an OSL evaluation (<<>> otherwise).        *)
(***************************************************************************)
WithD(r, D) == [ok |-> r.ok, err |-> r.err, val |-> r.val, D |-> D]

SumAll(A) == Sum(Vec([i \in 1..NRows(A) |-> Sum(A[i])]))

logLoss(w, X, T) ==
    LET nd == NCols(X)
    IN  IF Len(w) # nd * n_classes THEN WithD(Raise("ValueError"), <<>>)
        ELSE
        LET W2 == Reshape(w, nd, n_classes)
            logp == logsoftmax(Dot(X, W2))
        IN  IF method = "OSL"
            THEN LET p == Mat([i \in 1..NRows(logp) |-> ExpRow(logp[i])])
                 IN  IF ~Broadcastable(T, p) THEN WithD(Raise("ValueError"), <<>>)
                     ELSE LET D == hardmax(BMul(T, p))
                          IN  WithD(Ok(-SumAll(BMul(ToFix(D), logp))), D)
            ELSE IF ~Broadcastable(T, logp) THEN WithD(Raise("ValueError"), <<>>)
                 ELSE WithD(Ok(-SumAll(BMul(T, logp))), <<>>)

\* np.dot(X.T, R).reshape((n_dim * n_classes)) for an N' x C' matrix R
GradOf(X, R) ==
    IF NRows(X) # NRows(R) THEN Raise("ValueError")
    ELSE IF NCols(X) * NCols(R) # NCols(X) * n_classes THEN Raise("ValueError")
    ELSE Ok(Flatten(Dot(Transpose(X), R)))

gradLogLoss(w, X, T) ==
    LET nd == NCols(X)
    IN  IF Len(w) # nd * n_classes THEN WithD(Raise("ValueError"), <<>>)
        ELSE
        LET W2 == Reshape(w, nd, n_classes)
            p == softmax(Dot(X, W2))
        IN  IF ~Broadcastable(T, p) THEN WithD(Raise("ValueError"), <<>>)
            ELSE IF method = "OSL"
                 THEN LET D == hardmax(BMul(T, p))
                      IN  WithD(GradOf(X, BSub(p, ToFix(D))), D)
                 ELSE WithD(GradOf(X, BSub(p, T)), <<>>)

(***************************************************************************)
(* The object.  An attribute that is not set is <<>>, a set one <<value>>  *)
(* (W, a matrix, is stored as it is: a matrix is never <<>>).              *)
(***************************************************************************)
NoAttr == <<>>
NoFrame == <<>>
NoFit == <<>>
NoCall == [op |-> "none", args |-> <<>>, ok |-> TRUE, err |-> "", val |-> <<>>,
           D |-> <<>>, printed |-> <<>>]

Methods == {"WL", "OSL"}

\* what a call leaves behind: the operation, its arguments, how it ended and
\* what it printed
Printing(op, args, r, printed) ==
    [op |-> op, args |-> args, ok |-> r.ok, err |-> r.err, val |-> r.val, D |-> r.D,
     printed |-> printed]

Called(op, args, r) == Printing(op, args, r, <<>>)

\* __init__(n_classes, method, optimizer, params, sound)
Construct(nc, m, o, par, snd) ==
    /\ sound = snd
    /\ params = par
    /\ method = m
    /\ optimizer = o
    /\ n_classes = nc
    /\ ctor = [n_classes |-> nc, method |-> m, optimizer |-> o, params |-> par,
               sound |-> snd]
    /\ n_dim = NoAttr
    /\ W = NoAttr

(***************************************************************************)
(* SpecFn: the numeric methods called directly on a constructed object.    *)
(***************************************************************************)
MaxWLen == MaxDim * MaxClasses + 1

Vectors(maxn, vals) == UNION {[1..n -> vals] : n \in 1..maxn}

XVals == {-Scale, Scale}
TVals == {0, Scale}
WVals == {-Scale, 0, Scale}
ZVals == {0, 1, 2}

\* the direct calls a caller can make: the method and its arguments
IndexCalls == {[op |-> "index2bin", args |-> <<vector, dim>>] :
                  vector \in Vectors(MaxN, -MaxIdx..MaxIdx), dim \in 1..MaxClasses}
HardmaxCalls == {[op |-> "hardmax", args |-> <<Z>>] :
                    Z \in AllMatrices(MaxN, MaxClasses + 1, ZVals)}
LossCalls == {[op |-> o, args |-> <<w, X, T>>] :
                 o \in {"logLoss", "gradLogLoss"},
                 w \in Vectors(MaxWLen, WVals),
                 X \in AllMatrices(MaxN, MaxDim, XVals),
                 T \in AllMatrices(MaxN, MaxClasses, TVals)}

\* a constructed object and one call about to be made on it
InitFn ==
    /\ \E nc \in 1..MaxClasses, m \in Methods :
          Construct(nc, m, "GD", [n_it |-> 1, rho |-> Scale], "off")
    /\ rng = 0
    /\ pc = "call"
    /\ frame \in IndexCalls \cup HardmaxCalls \cup LossCalls
    /\ frame2 = NoFrame
    /\ ret = NoCall
    /\ last = NoFit

Returned == /\ pc' = "idle"
            /\ UNCHANGED <<sound, params, method, optimizer, n_classes, ctor,
                           n_dim, W, rng, frame, frame2, last>>

CallIndex2bin ==
    /\ pc = "call" /\ frame.op = "index2bin"
    /\ ret' = Called(frame.op, frame.args,
                     WithD(index2bin(frame.args[1], frame.args[2]), <<>>))
    /\ Returned

CallHardmax ==
    /\ pc = "call" /\ frame.op = "hardmax"
    /\ ret' = Called(frame.op, frame.args, WithD(Ok(hardmax(frame.args[1])), <<>>))
    /\ Returned

CallLogLoss ==
    /\ pc = "call" /\ frame.op = "logLoss"
    /\ ret' = Called(frame.op, frame.args,
                     logLoss(frame.args[1], frame.args[2], frame.args[3]))
    /\ Returned

CallGradLogLoss ==
    /\ pc = "call" /\ frame.op = "gradLogLoss"
    /\ ret' = Called(frame.op, frame.args,
                     gradLogLoss(frame.args[1], frame.args[2], frame.args[3]))
    /\ Returned

NextFn == CallIndex2bin \/ CallHardmax \/ CallLogLoss \/ CallGradLogLoss

SpecFn == InitFn /\ [][NextFn]_vars

(***************************************************************************)
(* Claims about the numeric methods, stated for SpecFn.                    *)
(***************************************************************************)
\* the exceptions numpy raises for the conditions the claims name
ShapeMismatch == "ValueError"
IndexOutOfRange == "IndexError"

LossOps == {"logLoss", "gradLogLoss"}

\* C3: a loss or gradient evaluation whose X and T differ in sample count, whose
\* weight vector is not n_dim * n_classes long, or whose T has not n_classes
\* columns, fails with ShapeMismatch and yields no value.
C3_ShapeMismatchRejected ==
    ret.op \in LossOps =>
        LET w == ret.args[1]
            X == ret.args[2]
            T == ret.args[3]
        IN  (\/ NRows(X) # NRows(T)
             \/ Len(w) # NCols(X) * n_classes
             \/ NCols(T) # n_classes)
            => (~ret.ok /\ ret.err = ShapeMismatch /\ ret.val = <<>>)

\* C4: index2bin(vector, dim) returns the N x dim one-hot matrix of the indices
\* when all lie in [0, dim), and fails with IndexOutOfRange when one does not.
C4_Index2binContract ==
    ret.op = "index2bin" =>
        LET vector == ret.args[1]
            dim == ret.args[2]
        IN  IF \A i \in DOMAIN vector : 0 <= vector[i] /\ vector[i] < dim
            THEN /\ ret.ok
                 /\ ret.val = [i \in 1..Len(vector) |-> [j \in 1..dim |->
                                  IF j = vector[i] + 1 THEN Scale ELSE 0]]
            ELSE ~ret.ok /\ ret.err = IndexOutOfRange

\* the number of entries of row r equal to its maximum
NMax(r) == Cardinality({j \in DOMAIN r : r[j] = RowMax(r)})

\* C5: every row of hardmax(Z) sums to 1, is 1/k at the k maximal entries of
\* the row of Z and 0 elsewhere.
C5_HardmaxContract ==
    ret.op = "hardmax" =>
        LET Z == ret.args[1]
        IN  \A i \in 1..NRows(Z) :
               /\ Sum(ret.val[i]) = 1
               /\ \A j \in 1..NCols(Z) :
                     IF Z[i][j] = RowMax(Z[i])
                     THEN ret.val[i][j] * NMax(Z[i]) = 1
                     ELSE ret.val[i][j] = 0

\* the shapes the loss and gradient are specified for
WellShaped(w, X, T) ==
    /\ NRows(X) = NRows(T)
    /\ Len(w) = NCols(X) * n_classes
    /\ NCols(T) = n_classes

\* the class probabilities an evaluation holds when it resolves D
ProbsIn(op, w, X) ==
    LET S == Dot(X, Reshape(w, NCols(X), n_classes))
    IN  IF op = "logLoss"
        THEN Mat([i \in 1..NRows(S) |-> ExpRow(logsoftmax(S)[i])])
        ELSE softmax(S)

\* D is nonzero exactly at the classes T marks possible that have the highest
\* probability among those
ResolvesCandidates(D, T, p) ==
    \A i \in 1..NRows(T) : \A j \in 1..NCols(T) :
        (D[i][j] # 0) <=>
            /\ T[i][j] > 0
            /\ \A c \in 1..NCols(T) : T[i][c] > 0 => p[i][c] <= p[i][j]

\* C10: in an OSL evaluation the nonzero entries of D lie at the candidate
\* classes of T with the highest current probability, whatever the mask T.
C10_OslTargetAmongCandidates ==
    (ret.op \in LossOps /\ method = "OSL" /\ ret.ok
        /\ WellShaped(ret.args[1], ret.args[2], ret.args[3]))
    => ResolvesCandidates(ret.D, ret.args[3],
                          ProbsIn(ret.op, ret.args[1], ret.args[2]))

(***************************************************************************)
(* The global generator behind np.random.randn: a state, the value drawn   *)
(* in a state, and the state after a draw.                                 *)
(***************************************************************************)
RngStates == 0..3

NextRng(s) == (s + 3) % 4

\* the standard-normal sample drawn in state s, on the grid
Draw(s) == (((2 * s) % 5) - 2) * (Scale \div 2)

RECURSIVE Advance(_, _)
Advance(s, k) == IF k = 0 THEN s ELSE Advance(NextRng(s), k - 1)

\* np.random.randn(r, c) drawn from state s
randn(s, r, c) ==
    Mat([i \in 1..r |-> [j \in 1..c |-> Draw(Advance(s, (i - 1) * c + j - 1))]])

(***************************************************************************)
(* The two gradient descent loops, one iteration at a time.                *)
(***************************************************************************)
\* W -= rho * G, for G the gradient as gradLogLoss returned it
Descend(Wm, G) == BSub(Wm, SMul(params.rho, Reshape(G, NRows(Wm), n_classes)))

\* the body of gd's loop on the local W
gdBody(Wm, X, T) ==
    LET g == gradLogLoss(Flatten(Wm), X, T)
    IN  IF g.ok THEN Ok(Descend(Wm, g.val)) ELSE Raise(g.err)

\* W += rho * np.dot(X.T, R): the result must have W's shape
Ascend(Wm, X, R) ==
    IF NRows(X) # NRows(R) THEN Raise("ValueError")
    ELSE IF NCols(R) # NCols(Wm) /\ NCols(R) # 1 THEN Raise("ValueError")
    ELSE Ok(BAdd(Wm, SMul(params.rho, Dot(Transpose(X), R))))

\* gd2's loop with the OSL branch taking T itself as the target
gd2BodyNoHardmax(Wm, X, T) ==
    LET p == softmax(Dot(X, Wm))
    IN  IF ~Broadcastable(T, p) THEN Raise("ValueError")
        ELSE Ascend(Wm, X, BSub(T, p))

\* the body of gd2's loop on the local W
gd2Body(Wm, X, T) ==
    LET p == softmax(Dot(X, Wm))
    IN  IF ~Broadcastable(T, p) THEN Raise("ValueError")
        ELSE IF method = "OSL"
             THEN Ascend(Wm, X, BSub(ToFix(hardmax(BMul(T, p))), p))
             ELSE Ascend(Wm, X, BSub(T, p))

(***************************************************************************)
(* Spec: one classifier, its callers' fit, predict, predict_proba and      *)
(* get_params calls.  A fit call is followed through its loop.             *)
(***************************************************************************)
DefaultClasses == 2

Optimizers == {"GD", "GD2", "BFGS"}

Rhos == {Scale \div 2, Scale}

ParamSets == {[n_it |-> n, rho |-> r] : n \in 1..MaxIt, r \in Rhos}

\* feature matrices: one feature, samples +1, -1, +1, ...
FitXs == {[i \in 1..n |-> <<IF i % 2 = 1 THEN Scale ELSE -Scale>>] : n \in 1..MaxN}

\* Y as fit receives it: len(Y.shape) and the array
Labels1D == {[i \in 1..MaxN |-> (i + k) % 2] : k \in 0..1}
                \cup {[i \in 1..MaxN |-> DefaultClasses]}
Labels2D == {[i \in 1..n |-> [j \in 1..DefaultClasses |-> Scale]] : n \in {MaxN, MaxN + 1}}
FitYs == {[ndim |-> 1, data |-> v] : v \in Labels1D}
             \cup {[ndim |-> 2, data |-> T] : T \in Labels2D}

PredictXs == Matrices(1, 1, XVals)

\* what sp.optimize.minimize may hand back as res.x
MinimizerPoints(n) == [1..n -> {0, Scale}]

Init ==
    /\ \E m \in Methods, o \in Optimizers, par \in ParamSets :
          Construct(DefaultClasses, m, o, par, "off")
    /\ rng \in RngStates
    /\ pc = "idle"
    /\ frame = NoFrame
    /\ frame2 = NoFrame
    /\ ret = NoCall
    /\ last = NoFit

NoD(r) == WithD(r, <<>>)

\* a failing call that also drops the stored matrix
RaisedDropsW(e) ==
    /\ ret' = Called("fit", <<>>, NoD(Raise(e)))
    /\ pc' = "idle"
    /\ frame' = NoFrame
    /\ W' = NoAttr
    /\ UNCHANGED last

\* the call ends with an exception before self.W is assigned
Raised(e) ==
    /\ ret' = Called("fit", <<>>, NoD(Raise(e)))
    /\ pc' = "idle"
    /\ frame' = NoFrame
    /\ UNCHANGED <<W, last>>

\* the scalar 0.00001 of w0, on the grid
SmallInit == 0

\* fit(X, Y) up to the optimizer's first iteration
FitCall ==
    /\ pc = "idle"
    /\ \E X \in FitXs, Y \in FitYs :
          LET enc == IF Y.ndim = 1 THEN index2bin(Y.data, n_classes) ELSE Ok(Y.data)
              nd == NCols(X)
              W0 == randn(rng, nd, n_classes)
          IN  /\ n_dim' = <<nd>>
              /\ IF ~enc.ok
                 THEN Raised(enc.err) /\ rng' = rng
                 ELSE /\ rng' = Advance(rng, nd * n_classes)
                      /\ pc' = IF optimizer = "GD" THEN "gd"
                               ELSE IF optimizer = "GD2" THEN "gd2" ELSE "minimize"
                      /\ frame' = [X |-> X, T |-> enc.val, rng0 |-> rng, n |-> 0,
                                   W |-> IF optimizer \in {"GD", "GD2"} THEN W0
                                         ELSE SMul(SmallInit, W0)]
                      /\ ret' = NoCall
                      /\ UNCHANGED <<W, last>>
    /\ UNCHANGED <<config, frame2>>

\* one pass of the loop of gd or gd2
Iterate(body) ==
    /\ frame.n < params.n_it
    /\ IF body.ok
       THEN /\ frame' = [frame EXCEPT !.W = body.val, !.n = @ + 1]
            /\ UNCHANGED <<pc, ret, W, last>>
       ELSE Raised(body.err)
    /\ UNCHANGED <<config, n_dim, rng, frame2>>

GdIterate == pc = "gd" /\ Iterate(gdBody(frame.W, frame.X, frame.T))

Gd2Iterate == pc = "gd2" /\ Iterate(gd2Body(frame.W, frame.X, frame.T))

\* what fit assigns to self.W when the optimizer hands back Wm
Stored(Wm) == Wm

\* the record of the fit call whose result is in self.W
FitOf(f, x) == [X |-> f.X, T |-> f.T, rng0 |-> f.rng0, x |-> x]

\* the loop is over: self.W = W; return self
FitReturn ==
    /\ pc \in {"gd", "gd2"}
    /\ frame.n = params.n_it
    /\ W' = Stored(frame.W)
    /\ last' = FitOf(frame, <<>>)
    /\ ret' = Called("fit", <<>>, NoD(Ok(<<"self">>)))
    /\ pc' = "idle"
    /\ frame' = NoFrame
    /\ UNCHANGED <<config, n_dim, rng, frame2>>

\* res = sp.optimize.minimize(logLoss, w0, jac=gradLogLoss, ...): the minimizer
\* evaluates the loss and the gradient at w0 and hands back a point and a flag
Minimize ==
    /\ pc = "minimize"
    /\ LET w0 == Flatten(frame.W)
           l == logLoss(w0, frame.X, frame.T)
           g == gradLogLoss(w0, frame.X, frame.T)
       IN  IF ~l.ok THEN Raised(l.err)
           ELSE IF ~g.ok THEN Raised(g.err)
           ELSE /\ \E x \in MinimizerPoints(Len(w0)), success \in BOOLEAN :
                      frame' = [X |-> frame.X, T |-> frame.T, rng0 |-> frame.rng0,
                                n |-> frame.n, W |-> frame.W,
                                res |-> [x |-> x, success |-> success]]
                /\ pc' = "minimized"
                /\ UNCHANGED <<ret, W, last>>
    /\ UNCHANGED <<config, n_dim, rng, frame2>>

\* self.W = res.x.reshape(...); print res.success ...; return self
FitStore ==
    /\ pc = "minimized"
    /\ W' = Stored(Reshape(frame.res.x, n_dim[1], n_classes))
    /\ last' = FitOf(frame, frame.res.x)
    /\ ret' = Printing("fit", <<>>, NoD(Ok(<<"self">>)), <<frame.res.success>>)
    /\ pc' = "idle"
    /\ frame' = NoFrame
    /\ UNCHANGED <<config, n_dim, rng, frame2>>

\* np.argmax(p, axis=1): the first maximal column, from 0
ArgMax(r) == (CHOOSE j \in DOMAIN r :
                 r[j] = RowMax(r) /\ \A c \in DOMAIN r : r[c] = RowMax(r) => j <= c) - 1

\* self.softmax(np.dot(X, self.W)), or the exception of the attribute access
Posterior(X) ==
    IF W = NoAttr THEN Raise("AttributeError")
    ELSE IF NCols(X) # NRows(W) THEN Raise("ValueError")
    ELSE Ok(softmax(Dot(X, W)))

predict(X) ==
    LET p == Posterior(X)
    IN  IF p.ok THEN Ok(Vec([i \in 1..NRows(X) |-> ArgMax(p.val[i])])) ELSE p

predict_proba(X) == Posterior(X)

\* get_params with the optimizer reported as the method
get_paramsSlip ==
    [n_classes |-> n_classes, method |-> optimizer, optimizer |-> optimizer,
     sound |-> sound, params |-> params]

get_params ==
    [n_classes |-> n_classes, method |-> method, optimizer |-> optimizer,
     sound |-> sound, params |-> params]

Query == /\ pc = "idle"
         /\ UNCHANGED <<config, n_dim, W, rng, pc, frame, frame2, last>>

Predict ==
    /\ Query
    /\ \E X \in PredictXs : ret' = Called("predict", <<X>>, NoD(predict(X)))

PredictProba ==
    /\ Query
    /\ \E X \in PredictXs : ret' = Called("predict_proba", <<X>>, NoD(predict_proba(X)))

GetParams ==
    /\ Query
    /\ ret' = Called("get_params", <<>>, NoD(Ok(get_params)))

Next == \/ FitCall
        \/ GdIterate
        \/ Gd2Iterate
        \/ FitReturn
        \/ Minimize
        \/ FitStore
        \/ Predict
        \/ PredictProba
        \/ GetParams

Spec == Init /\ [][Next]_vars

(***************************************************************************)
(* Claims about the classifier, stated for Spec.                           *)
(***************************************************************************)
Untrained == last = NoFit

\* C1: predict and predict_proba on a classifier on which no fit has returned
\* fail with NotFittedError and return nothing.
C1_UntrainedPredictNotFitted ==
    (ret.op \in {"predict", "predict_proba"} /\ Untrained)
    => (~ret.ok /\ ret.err = "NotFittedError" /\ ret.val = <<>>)

\* C2: when the external minimizer reports non-success, fit ends with
\* ConvergenceFailure and leaves self.W as it was.
C2_ConvergenceFailureSurfaced ==
    [][(pc = "minimized" /\ ~frame.res.success)
        => (~ret'.ok /\ ret'.err = "ConvergenceFailure" /\ W' = W)]_vars

\* the matrix the optimizer of a fit call hands back: n_it passes of the loop
\* from the matrix drawn at the call's start, or the minimizer's point
RECURSIVE gdRun(_, _, _, _)
gdRun(k, Wm, X, T) ==
    IF k = 0 THEN Wm
    ELSE gdRun(k - 1,
               IF optimizer = "GD" THEN gdBody(Wm, X, T).val ELSE gd2Body(Wm, X, T).val,
               X, T)

OptimizerOutput(f) ==
    IF optimizer \in {"GD", "GD2"}
    THEN gdRun(params.n_it, randn(f.rng0, NCols(f.X), n_classes), f.X, f.T)
    ELSE Reshape(f.x, NCols(f.X), n_classes)

\* C7: self.W is absent until a fit returns, and from then on it is the
\* NCols(X) x n_classes matrix the optimizer produced in the most recent fit
\* that returned: in every state, also while a later fit iterates, after a fit
\* that failed, and after predict, predict_proba and get_params.
C7_StoredWeightsAreLastFit ==
    /\ (W = NoAttr) <=> Untrained
    /\ ~Untrained =>
          /\ W = OptimizerOutput(last)
          /\ NRows(W) = NCols(last.X) /\ \A i \in 1..NRows(W) : Len(W[i]) = n_classes

\* a fit has returned, a later fit call on other data failed, and W is kept
C7_Witness ==
    /\ ~Untrained /\ ret.op = "fit" /\ ~ret.ok
    /\ W = OptimizerOutput(last)

\* C8 as amended: get_params returns the five options n_classes, method,
\* optimizer, sound and params, each with the value passed at construction,
\* and no operation changes an option.
C8_GetParamsIsConstruction ==
    /\ ret.op = "get_params" => ret.val = ctor
    /\ get_params = ctor

C8_Witness == ret.op = "get_params" /\ ~Untrained /\ ret.val = ctor

\* C8 as stated: the options get_params returns are exactly n_classes, method,
\* optimizer and params.
C8_GetParamsFourOptions ==
    ret.op = "get_params" =>
        /\ DOMAIN ret.val = {"n_classes", "method", "optimizer", "params"}
        /\ \A k \in DOMAIN ret.val : ret.val[k] = ctor[k]

\* C9: two fit calls of GradientDescentAccumulated with the same X, Y and
\* params store the same weight matrix (the configuration holds no seed).
C9_FitIsDeterministic ==
    [][(/\ pc = "gd" /\ pc' = "idle" /\ ret'.ok
        /\ ~Untrained /\ last.X = frame.X /\ last.T = frame.T)
       => W' = W]_vars

(***************************************************************************)
(* SpecGD: gd and gd2 run side by side on the same X and T, each from the  *)
(* matrix randn draws under the same seed.  frame holds gd's locals,       *)
(* frame2 those of gd2.                                                    *)
(***************************************************************************)
\* feature matrices: a constant feature and one that varies
GdXs == {Mat([i \in 1..Len(x) |-> <<Scale, x[i]>>]) : x \in Vectors(MaxN, XVals)}

InitGD ==
    /\ \E m \in Methods, par \in ParamSets :
          Construct(DefaultClasses, m, "GD", par, "off")
    /\ rng \in RngStates
    /\ pc = "pair"
    /\ \E X \in GdXs :
       \E T \in Matrices(NRows(X), DefaultClasses, TVals) :
          /\ frame = [X |-> X, T |-> T, rng0 |-> rng, n |-> 0,
                      W |-> randn(rng, NCols(X), n_classes)]
          /\ frame2 = [X |-> X, T |-> T, rng0 |-> rng, n |-> 0,
                       W |-> randn(rng, NCols(X), n_classes)]
    /\ ret = NoCall
    /\ last = NoFit

\* iteration frame.n of both loops
IterateBoth ==
    /\ pc = "pair"
    /\ frame.n < params.n_it
    /\ LET a == gdBody(frame.W, frame.X, frame.T)
           b == gd2Body(frame2.W, frame2.X, frame2.T)
       IN  /\ a.ok /\ b.ok
           /\ frame' = [frame EXCEPT !.W = a.val, !.n = @ + 1]
           /\ frame2' = [frame2 EXCEPT !.W = b.val, !.n = @ + 1]
    /\ UNCHANGED <<config, n_dim, W, rng, pc, ret, last>>

\* both loops are over: each returns its W
ReturnBoth ==
    /\ pc = "pair"
    /\ frame.n = params.n_it
    /\ pc' = "idle"
    /\ ret' = Called("gd", <<>>, NoD(Ok(<<frame.W, frame2.W>>)))
    /\ UNCHANGED <<config, n_dim, W, rng, frame, frame2, last>>

NextGD == IterateBoth \/ ReturnBoth

SpecGD == InitGD /\ [][NextGD]_vars

\* C6: from the same initial matrix, on the same X, T, method, rho and n_it,
\* gd and gd2 hold the same weight matrix after every iteration and return
\* the same matrix.
C6_GdAndGd2Agree ==
    /\ frame.n = frame2.n
    /\ frame.W = frame2.W
    /\ ret.op = "gd" => ret.val[1] = ret.val[2]

\* both loops have run all their iterations in OSL mode and moved W
C6_Witness ==
    /\ ret.op = "gd" /\ method = "OSL" /\ frame.n = MaxIt
    /\ ret.val[1] = ret.val[2]
    /\ ret.val[1] # randn(frame.rng0, NCols(frame.X), n_classes)

====
